---- MODULE Spec2Model ----
(***************************************************************************)
(* A model of the STARK prover of starky/src/prover.rs (prove and          *)
(* compute_quotient_polys) and of the stack constraints of                 *)
(* evm/src/cpu/stack.rs (eval_packed_one and eval_ext_circuit_one).        *)
(*                                                                         *)
(* The generic field F is instantiated as the prime field of order 17      *)
(* (two-adicity 4) and its extension F::Extension as the quadratic         *)
(* extension F[X]/(X^2 - 3); an extension element a + b*X is the pair      *)
(* <<a, b>>.                                                               *)
(***************************************************************************)
EXTENDS Integers, Sequences, FiniteSets, TLC

(***************************************************************************)
(* Bounds of the model.                                                    *)
(***************************************************************************)
\* traces have 0..MaxRows rows
MaxRows == 4
\* trace cells are drawn from 0..MaxTraceVal
MaxTraceVal == 1
\* challenger outputs are drawn from 0..MaxChallenge
MaxChallenge == 2
\* config.fri_config.rate_bits is drawn from 1..MaxRateBits
MaxRateBits == 2

(***************************************************************************)
(* The field F and its extension.                                          *)
(***************************************************************************)
P == 17
TwoAdicity == 4
\* generator of the multiplicative group; also the coset shift
Generator == 3
\* the non-residue W of the extension F[X]/(X^2 - W)
ExtW == 3

F == 0 .. (P - 1)

Fadd(a, b) == (a + b) % P
Fsub(a, b) == (a - b + P) % P
Fmul(a, b) == (a * b) % P
Fneg(a) == (P - a) % P

FpowTable ==
  LET RECURSIVE pw(_, _)
      pw(a, e) == IF e = 0 THEN 1 ELSE (a * pw(a, e - 1)) % P
  IN [a \in F |-> [e \in 0 .. (P - 1) |-> pw(a, e)]]

\* a^e; exponents are reduced modulo the group order for a # 0
Fpow(a, e) == IF a = 0 THEN (IF e = 0 THEN 1 ELSE 0) ELSE FpowTable[a][e % (P - 1)]

Finv(a) == Fpow(a, P - 2)

Pow2(n) == 2 ^ n

\* F::primitive_root_of_unity(n_log)
primitive_root_of_unity(n_log) == Fpow(Generator, Pow2(TwoAdicity - n_log))

\* F::coset_shift()
coset_shift == Generator

\* log2_strict(n): the result, or -1 where the library panics
log2_strict(n) ==
  IF \E k \in 0 .. TwoAdicity : Pow2(k) = n
    THEN CHOOSE k \in 0 .. TwoAdicity : Pow2(k) = n
    ELSE -1

(* extension field: pairs <<a, b>> = a + b*X, X^2 = ExtW *)
Ext == F \X F
ExtOne == <<1, 0>>
ExtZero == <<0, 0>>
ExtOf(a) == <<a, 0>>
ExtAdd(x, y) == <<Fadd(x[1], y[1]), Fadd(x[2], y[2])>>
ExtSub(x, y) == <<Fsub(x[1], y[1]), Fsub(x[2], y[2])>>
ExtMul(x, y) ==
  <<Fadd(Fmul(x[1], y[1]), Fmul(ExtW, Fmul(x[2], y[2]))),
    Fadd(Fmul(x[1], y[2]), Fmul(x[2], y[1]))>>
ExtScale(x, c) == <<Fmul(x[1], c), Fmul(x[2], c)>>

RECURSIVE ExtPow(_, _)
ExtPow(x, e) == IF e = 0 THEN ExtOne ELSE ExtMul(x, ExtPow(x, e - 1))

\* x.exp_power_of_2(k): k squarings
RECURSIVE exp_power_of_2(_, _)
exp_power_of_2(x, k) == IF k = 0 THEN x ELSE exp_power_of_2(ExtMul(x, x), k - 1)

(***************************************************************************)
(* Polynomials.  Coefficient form: <<c_0, c_1, ...>>; value form: the      *)
(* values at w^0, w^1, ... (or at shift*w^i on a coset), w the primitive   *)
(* root of unity of the length's order.                                    *)
(***************************************************************************)
RECURSIVE SumTo(_, _)
\* f[0] + ... + f[n-1] in F
SumTo(f, n) == IF n = 0 THEN 0 ELSE Fadd(SumTo(f, n - 1), f[n - 1])

\* evaluation of a coefficient-form polynomial at a base-field point
EvalPoly(coeffs, x) ==
  SumTo([j \in 0 .. (Len(coeffs) - 1) |-> Fmul(coeffs[j + 1], Fpow(x, j))], Len(coeffs))

RECURSIVE ExtEvalTo(_, _, _)
ExtEvalTo(coeffs, x, n) ==
  IF n = 0 THEN ExtZero
  ELSE ExtAdd(ExtEvalTo(coeffs, x, n - 1), ExtScale(ExtPow(x, n - 1), coeffs[n]))

\* evaluation of a base-field polynomial at an extension point
EvalPolyExt(coeffs, x) == ExtEvalTo(coeffs, x, Len(coeffs))

\* ifft: values on the subgroup of order Len(values) -> coefficients
ifft(values) ==
  LET n == Len(values)
      w == primitive_root_of_unity(log2_strict(n))
      ninv == Finv(n % P)
  IN [j \in 1 .. n |->
        Fmul(ninv,
             SumTo([i \in 0 .. (n - 1) |->
                      Fmul(values[i + 1], Fpow(w, (n - 1) * i * (j - 1)))], n))]

\* coset_fft: coefficients -> values at shift * w^i, i < Len(coeffs)
coset_fft(coeffs, shift) ==
  LET n == Len(coeffs)
      w == primitive_root_of_unity(log2_strict(n))
  IN [i \in 1 .. n |-> EvalPoly(coeffs, Fmul(shift, Fpow(w, i - 1)))]

\* PolynomialValues::coset_ifft(shift): values at shift * w^i -> coefficients
coset_ifft(values, shift) ==
  LET c == ifft(values)
  IN [j \in 1 .. Len(values) |-> Fmul(c[j], Fpow(Finv(shift), j - 1))]

Zeros(n) == [i \in 1 .. n |-> 0]

\* PolynomialCoeffs::trim: drop the trailing zero coefficients
RECURSIVE trim(_)
trim(coeffs) ==
  IF Len(coeffs) > 0 /\ coeffs[Len(coeffs)] = 0
    THEN trim(SubSeq(coeffs, 1, Len(coeffs) - 1))
    ELSE coeffs

\* PolynomialCoeffs::pad(new_len): [ok |-> FALSE] when the polynomial is longer
pad(coeffs, new_len) ==
  IF new_len < Len(coeffs)
    THEN [ok |-> FALSE, coeffs |-> coeffs]
    ELSE [ok |-> TRUE, coeffs |-> coeffs \o Zeros(new_len - Len(coeffs))]

\* PolynomialCoeffs::chunks(chunk_size): consecutive slices of the coefficients
chunks(coeffs, chunk_size) ==
  LET m == (Len(coeffs) + chunk_size - 1) \div chunk_size
  IN [j \in 1 .. m |->
        SubSeq(coeffs, (j - 1) * chunk_size + 1,
               IF j * chunk_size < Len(coeffs) THEN j * chunk_size ELSE Len(coeffs))]

(***************************************************************************)
(* The constraint capability S: Stark<F, D> and its ConstraintConsumer.    *)
(* A stark of the family is [mul, add, last]: one column, one public       *)
(* input, and the constraints                                              *)
(*   first row:  local[0] = public_inputs[0]                               *)
(*   last row:   local[0] = last                                           *)
(*   every row:  next[0] = mul * local[0] + add                            *)
(***************************************************************************)
COLUMNS == 1
PUBLIC_INPUTS == 1

Starks ==
  { [mul |-> 1, add |-> 1, last |-> 1],
    [mul |-> 1, add |-> 0, last |-> 0],
    [mul |-> P - 1, add |-> 1, last |-> 1] }

\* ConstraintConsumer::new(alpha, lagrange_first, lagrange_last)
ConsumerNew(alpha, lagrange_first, lagrange_last) ==
  [alpha |-> alpha, acc |-> 0, lagrange_first |-> lagrange_first,
   lagrange_last |-> lagrange_last]

\* ConstraintConsumer::one: acc := acc * alpha + constraint
one(c, constraint) == [c EXCEPT !.acc = Fadd(Fmul(c.acc, c.alpha), constraint)]
one_first_row(c, constraint) == one(c, Fmul(constraint, c.lagrange_first))
one_last_row(c, constraint) == one(c, Fmul(constraint, c.lagrange_last))
accumulator(c) == c.acc

\* Stark::eval_packed_base(vars, consumer)
eval_packed_base(st, v, consumer) ==
  LET c1 == one_first_row(consumer, Fsub(v.local_values[1], v.public_inputs[1]))
      c2 == one_last_row(c1, Fsub(v.local_values[1], st.last))
  IN one(c2, Fsub(v.next_values[1],
                  Fadd(Fmul(st.mul, v.local_values[1]), st.add)))

(***************************************************************************)
(* PolynomialBatch: the commitment oracle.  leaves[i + 1] holds the values *)
(* of all the polynomials at the coset point shift * w^i; the cap is the   *)
(* binding digest of the batch, modelled as the committed polynomials.     *)
(***************************************************************************)
\* PolynomialBatch::from_coeffs(polynomials, rate_bits, ...)
from_coeffs(polynomials, rate_bits) ==
  LET degree == Len(polynomials[1])
      n == degree * Pow2(rate_bits)
      lde == [p \in 1 .. Len(polynomials) |->
                coset_fft(pad(polynomials[p], n).coeffs, coset_shift)]
  IN [polynomials |-> polynomials,
      leaves |-> [i \in 1 .. n |-> [p \in 1 .. Len(polynomials) |-> lde[p][i]]],
      cap |-> [digest_of |-> polynomials],
      degree_log |-> log2_strict(degree),
      rate_bits |-> rate_bits]

\* PolynomialBatch::from_values(values, rate_bits, ...)
from_values(values, rate_bits) ==
  from_coeffs([p \in 1 .. Len(values) |-> ifft(values[p])], rate_bits)

\* PolynomialBatch::get_lde_values(index)
get_lde_values(batch, index) == batch.leaves[index + 1]

\* transpose of a row-major matrix with COLUMNS columns
transpose(rows) ==
  [c \in 1 .. COLUMNS |-> [r \in 1 .. Len(rows) |-> rows[r][c]]]

\* PolynomialValues::lde(rate_bits): the values extended onto the coset
lde(values, rate_bits) ==
  coset_fft(pad(ifft(values), Len(values) * Pow2(rate_bits)).coeffs, coset_shift)

\* ZeroPolyOnCoset::eval_inverse(i): 1 / Z_H(shift * w^i), Z_H(x) = x^degree - 1
eval_inverse(degree_bits, rate_bits, i) ==
  LET w == primitive_root_of_unity(degree_bits + rate_bits)
      x == Fmul(coset_shift, Fpow(w, i))
  IN Finv(Fsub(Fpow(x, Pow2(degree_bits)), 1))

(***************************************************************************)
(* The parallel iterators.  A schedule is the order in which the workers   *)
(* complete the items; collect() stores the value of item i at position i. *)
(***************************************************************************)
Schedules(n) ==
  { [k \in 0 .. (n - 1) |-> k],
    [k \in 0 .. (n - 1) |-> n - 1 - k],
    [k \in 0 .. (n - 1) |-> (k + 1) % n] }

RECURSIVE ParFill(_, _, _, _)
ParFill(acc, vals, sched, k) ==
  IF k = 0 THEN acc
  ELSE LET i == sched[k - 1]
       IN [ParFill(acc, vals, sched, k - 1) EXCEPT ![i + 1] = vals[i + 1]]

\* a collect that stores the values in the order the workers complete them
ParCollect_completion(vals, sched) == [k \in 1 .. Len(vals) |-> vals[sched[k - 1] + 1]]

\* into_par_iter().map(f).collect(): vals[i + 1] is f(i), sched the completion order
ParCollect(vals, sched) == ParFill(Zeros(Len(vals)), vals, sched, Len(vals))

(***************************************************************************)
(* compute_quotient_polys                                                  *)
(***************************************************************************)
\* a next row that stays on the last point instead of wrapping to the first
next_index_clamped(n, i) == IF i + 1 < n THEN i + 1 ELSE i

\* line 186: the index of the next row of the extended point i
next_index(n, i) == (i + 1) % n

\* lines 182, 186: the indices given to get_lde_values at the extended point i
lde_indices(n, i) == {i, next_index(n, i)}

\* the closure of lines 173-195: the quotient value at the extended point i
quotient_eval_at(st, trace_commitment, alpha, degree_bits, rate_bits, lagrange_first, lagrange_last, i) ==
  LET degree == Pow2(degree_bits)
      n == degree * Pow2(rate_bits)
      consumer == ConsumerNew(alpha, lagrange_first[i + 1], lagrange_last[i + 1])
      v == [local_values |-> get_lde_values(trace_commitment, i),
            next_values |-> get_lde_values(trace_commitment, next_index(n, i)),
            public_inputs |-> [k \in 1 .. PUBLIC_INPUTS |-> 0]]
      constraints_eval == accumulator(eval_packed_base(st, v, consumer))
      denominator_inv == eval_inverse(degree_bits, rate_bits, i)
  IN Fmul(constraints_eval, denominator_inv)

\* compute_quotient_polys with the values collected in completion order
compute_quotient_polys_completion(st, trace_commitment, alphas_, degree_bits, rate_bits, scheds) ==
  LET n == Pow2(degree_bits) * Pow2(rate_bits)
      lagrange_first ==
        lde([k \in 1 .. Pow2(degree_bits) |-> IF k = 1 THEN 1 ELSE 0], rate_bits)
      lagrange_last ==
        lde([k \in 1 .. Pow2(degree_bits) |-> IF k = Pow2(degree_bits) THEN 1 ELSE 0],
            rate_bits)
      evals(a) ==
        ParCollect_completion(
          [k \in 1 .. n |->
             quotient_eval_at(st, trace_commitment, alphas_[a], degree_bits,
                              rate_bits, lagrange_first, lagrange_last, k - 1)],
          scheds[a])
  IN [a \in 1 .. Len(alphas_) |-> coset_ifft(evals(a), coset_shift)]

compute_quotient_polys(st, trace_commitment, alphas_, degree_bits, rate_bits, scheds) ==
  LET degree == Pow2(degree_bits)
      n == degree * Pow2(rate_bits)
      lagrange_first == lde([k \in 1 .. degree |-> IF k = 1 THEN 1 ELSE 0], rate_bits)
      lagrange_last == lde([k \in 1 .. degree |-> IF k = degree THEN 1 ELSE 0], rate_bits)
      evals(a) ==
        ParCollect([k \in 1 .. n |->
                      quotient_eval_at(st, trace_commitment, alphas_[a], degree_bits,
                                       rate_bits, lagrange_first, lagrange_last, k - 1)],
                   scheds[a])
  IN [a \in 1 .. Len(alphas_) |-> coset_ifft(evals(a), coset_shift)]

(***************************************************************************)
(* StarkOpeningSet::new, Stark::fri_instance, PolynomialBatch::prove_openings *)
(***************************************************************************)
eval_commitment(z, batch) ==
  [p \in 1 .. Len(batch.polynomials) |-> EvalPolyExt(batch.polynomials[p], z)]

\* StarkOpeningSet::new(zeta, g, trace_commitment, quotient_commitment)
StarkOpeningSet(zeta_, g, trace_commitment_, quotient_commitment_) ==
  [local_values |-> eval_commitment(zeta_, trace_commitment_),
   next_values |-> eval_commitment(ExtMul(zeta_, g), trace_commitment_),
   quotient_polys |-> eval_commitment(zeta_, quotient_commitment_)]

\* S::fri_instance(zeta, g, rate_bits): the two opening points
fri_instance(zeta_, g, rate_bits) == <<zeta_, ExtMul(zeta_, g)>>

(***************************************************************************)
(* Challenger: the Fiat-Shamir transcript.  Its state is the sequence of   *)
(* what it absorbed and squeezed; an output is the hash of that state.     *)
(* The hash is a random oracle, sampled lazily: oracle maps the states     *)
(* already hashed to their outputs.                                        *)
(***************************************************************************)
\* the sample of hash outputs: 0, 1 (a root of unity of every order), 4 (of
\* order 4), 9 (of order 8), ...
ChallengeVals == {(i * i) % P : i \in 0 .. MaxChallenge}

\* Challenger::new()
ChallengerNew == <<>>

\* Challenger::observe_cap(cap)
observe_cap(ch, cap) == Append(ch, [op |-> "observe", cap |-> cap])

RECURSIVE after_challenges(_, _)
\* the challenger after n outputs
after_challenges(ch, n) ==
  IF n = 0 THEN ch ELSE Append(after_challenges(ch, n - 1), [op |-> "challenge"])

\* vs are the n outputs the hash gives from the state ch on
HashGives(orc, ch, n, vs) ==
  /\ Len(vs) = n
  /\ \A k \in 1 .. n :
       after_challenges(ch, k - 1) \in DOMAIN orc => vs[k] = orc[after_challenges(ch, k - 1)]

Hashed(orc, ch, n, vs) ==
  [s \in DOMAIN orc \cup {after_challenges(ch, k - 1) : k \in 1 .. n} |->
     IF s \in DOMAIN orc THEN orc[s]
     ELSE vs[CHOOSE k \in 1 .. n : after_challenges(ch, k - 1) = s]]

RECURSIVE Flatten(_)
Flatten(seqs) == IF seqs = <<>> THEN <<>> ELSE Head(seqs) \o Flatten(Tail(seqs))

(***************************************************************************)
(* evm/src/cpu/stack.rs: the stack constraints of one operation.  Rows     *)
(* hold extension-field values; a yielded constraint is <<kind, value>>    *)
(* with kind "constraint" or "constraint_transition".                      *)
(***************************************************************************)
NUM_GP_CHANNELS == 5
\* Segment::Stack as u64
SegmentStack == 1
\* a memory channel carries ValueLimbs value limbs
ValueLimbs == 2

\* P::Scalar::from_canonical_usize(n), F::from_canonical_usize(n)
from_canonical(n) == ExtOf(n % P)

Constraint(v) == <<"constraint", v>>
Transition(v) == <<"constraint_transition", v>>

\* lv.mem_channels[i], i counted from 0 as in the source
Chan(row, i) == row.mem_channels[i + 1]

\* every StackBehavior whose channels exist
StackBehaviors ==
  [num_pops : 0 .. NUM_GP_CHANNELS,
   pushes : BOOLEAN,
   new_top_stack_channel : {-1} \cup (0 .. (NUM_GP_CHANNELS - 1)),
   disable_other_channels : BOOLEAN]

\* pushes as usize
AsUsize(b) == IF b THEN 1 ELSE 0
Max(a, b) == IF a >= b THEN a ELSE b

(* ---- eval_packed_one ---- *)
\* lines 176-190: the reads of the popped elements after the first
packed_pops(lv_, filter_, sb) ==
  Flatten([i \in 1 .. (sb.num_pops - 1) |->
    LET channel == Chan(lv_, i)
        addr_virtual == ExtSub(lv_.stack_len, from_canonical(i + 1))
    IN << Constraint(ExtMul(filter_, ExtSub(channel.used, ExtOne))),
          Constraint(ExtMul(filter_, ExtSub(channel.is_read, ExtOne))),
          Constraint(ExtMul(filter_, ExtSub(channel.addr_context, lv_.context))),
          Constraint(ExtMul(filter_, ExtSub(channel.addr_segment, from_canonical(SegmentStack)))),
          Constraint(ExtMul(filter_, ExtSub(channel.addr_virtual, addr_virtual))) >>])

\* the extra read disabled when stack_inv_aux is 1 instead of when it is 0
packed_pops_no_push_unselected(lv_, nv_, filter_, sb) ==
  LET len_diff == ExtSub(lv_.stack_len, from_canonical(sb.num_pops))
      new_filter == ExtMul(len_diff, filter_)
      channel == Chan(nv_, 0)
      addr_virtual == ExtSub(nv_.stack_len, ExtOne)
      empty_stack_filter == ExtMul(filter_, lv_.stack_inv_aux)
  IN << Transition(ExtMul(new_filter, ExtSub(channel.used, ExtOne))),
        Transition(ExtMul(new_filter, ExtSub(channel.is_read, ExtOne))),
        Transition(ExtMul(new_filter, ExtSub(channel.addr_context, nv_.context))),
        Transition(ExtMul(new_filter, ExtSub(channel.addr_segment, from_canonical(SegmentStack)))),
        Transition(ExtMul(new_filter, ExtSub(channel.addr_virtual, addr_virtual))),
        Constraint(ExtMul(filter_, ExtSub(ExtMul(len_diff, lv_.stack_inv), lv_.stack_inv_aux))),
        Transition(ExtMul(empty_stack_filter, channel.used)) >>

\* lines 197-220: pops without a push: the extra read of the new top
packed_pops_no_push(lv_, nv_, filter_, sb) ==
  LET len_diff == ExtSub(lv_.stack_len, from_canonical(sb.num_pops))
      new_filter == ExtMul(len_diff, filter_)
      channel == Chan(nv_, 0)
      addr_virtual == ExtSub(nv_.stack_len, ExtOne)
      empty_stack_filter == ExtMul(filter_, ExtSub(lv_.stack_inv_aux, ExtOne))
  IN << Transition(ExtMul(new_filter, ExtSub(channel.used, ExtOne))),
        Transition(ExtMul(new_filter, ExtSub(channel.is_read, ExtOne))),
        Transition(ExtMul(new_filter, ExtSub(channel.addr_context, nv_.context))),
        Transition(ExtMul(new_filter, ExtSub(channel.addr_segment, from_canonical(SegmentStack)))),
        Transition(ExtMul(new_filter, ExtSub(channel.addr_virtual, addr_virtual))),
        Constraint(ExtMul(filter_, ExtSub(ExtMul(len_diff, lv_.stack_inv), lv_.stack_inv_aux))),
        Transition(ExtMul(empty_stack_filter, channel.used)) >>

\* lines 223-247: a push without pops: the old top is written to the last channel
packed_push_only(lv_, filter_) ==
  LET new_filter == ExtMul(lv_.stack_len, filter_)
      channel == Chan(lv_, NUM_GP_CHANNELS - 1)
      addr_virtual == ExtSub(lv_.stack_len, ExtOne)
      empty_stack_filter == ExtMul(filter_, ExtSub(lv_.stack_inv_aux, ExtOne))
  IN << Constraint(ExtMul(new_filter, ExtSub(channel.used, ExtOne))),
        Constraint(ExtMul(new_filter, channel.is_read)),
        Constraint(ExtMul(new_filter, ExtSub(channel.addr_context, lv_.context))),
        Constraint(ExtMul(new_filter, ExtSub(channel.addr_segment, from_canonical(SegmentStack)))),
        Constraint(ExtMul(new_filter, ExtSub(channel.addr_virtual, addr_virtual))) >>
     \o [l \in 1 .. ValueLimbs |->
           Constraint(ExtMul(new_filter, ExtSub(channel.value[l], Chan(lv_, 0).value[l])))]
     \o << Constraint(ExtMul(filter_, ExtSub(ExtMul(lv_.stack_len, lv_.stack_inv), lv_.stack_inv_aux))),
           Constraint(ExtMul(empty_stack_filter, channel.used)) >>

\* lines 249-258: neither pop nor push: the top of the stack does not change
packed_unchanged(lv_, nv_, filter_) ==
  << Constraint(ExtMul(filter_, Chan(nv_, 0).used)) >>
  \o [l \in 1 .. ValueLimbs |->
        Constraint(ExtMul(filter_, ExtSub(Chan(lv_, 0).value[l], Chan(nv_, 0).value[l])))]

\* lines 262-270: the next top of the stack, when a channel holds it
packed_next_top(lv_, nv_, filter_, sb) ==
  IF sb.new_top_stack_channel = -1 THEN <<>>
  ELSE [l \in 1 .. ValueLimbs |->
          Transition(ExtMul(filter_,
            ExtSub(Chan(lv_, sb.new_top_stack_channel).value[l], Chan(nv_, 0).value[l])))]

\* lines 273-280: the unused channels are disabled
packed_unused(lv_, filter_, sb) ==
  IF ~sb.disable_other_channels THEN <<>>
  ELSE LET lo == Max(1, sb.num_pops)
           hi == NUM_GP_CHANNELS - AsUsize(sb.pushes)
       IN [k \in 1 .. (hi - lo) |-> Constraint(ExtMul(filter_, Chan(lv_, lo + k - 1).used))]

\* the new stack length without the push
packed_stack_len_no_push(lv_, nv_, filter_, sb) ==
  LET num_pops == from_canonical(sb.num_pops)
  IN << Transition(ExtMul(filter_, ExtSub(nv_.stack_len, ExtSub(lv_.stack_len, num_pops)))) >>

\* lines 283-285: the new stack length
packed_stack_len(lv_, nv_, filter_, sb) ==
  LET num_pops == from_canonical(sb.num_pops)
      push == from_canonical(AsUsize(sb.pushes))
  IN << Transition(ExtMul(filter_,
          ExtSub(nv_.stack_len, ExtAdd(ExtSub(lv_.stack_len, num_pops), push)))) >>

\* eval_packed_one: the constraints it yields, in order
eval_packed_one(lv_, nv_, filter_, sb) ==
  (IF sb.num_pops > 0
     THEN packed_pops(lv_, filter_, sb)
          \o (IF ~sb.pushes THEN packed_pops_no_push(lv_, nv_, filter_, sb) ELSE <<>>)
     ELSE IF sb.pushes THEN packed_push_only(lv_, filter_)
     ELSE packed_unchanged(lv_, nv_, filter_))
  \o packed_next_top(lv_, nv_, filter_, sb)
  \o packed_unused(lv_, filter_, sb)
  \o packed_stack_len(lv_, nv_, filter_, sb)

(* ---- CircuitBuilder: the value each built target takes ---- *)
mul_extension(a, b) == ExtMul(a, b)
sub_extension(a, b) == ExtSub(a, b)
\* a * b - c
mul_sub_extension(a, b, c) == ExtSub(ExtMul(a, b), c)
\* const_0 * multiplicand_0 * multiplicand_1 + const_1 * addend
arithmetic_extension(const_0, const_1, m0, m1, addend) ==
  ExtAdd(ExtScale(ExtMul(m0, m1), const_0), ExtScale(addend, const_1))
constant_extension(c) == c

(* ---- eval_ext_circuit_one ---- *)
\* lines 310-348
circuit_pops(lv_, filter_, sb) ==
  Flatten([i \in 1 .. (sb.num_pops - 1) |->
    LET channel == Chan(lv_, i)
    IN << Constraint(mul_sub_extension(filter_, channel.used, filter_)),
          Constraint(mul_sub_extension(filter_, channel.is_read, filter_)),
          Constraint(mul_extension(filter_, sub_extension(channel.addr_context, lv_.context))),
          Constraint(arithmetic_extension(1, Fneg(SegmentStack % P), filter_, channel.addr_segment, filter_)),
          Constraint(arithmetic_extension(1, (i + 1) % P, filter_,
                       sub_extension(channel.addr_virtual, lv_.stack_len), filter_)) >>])

\* lines 355-407
circuit_pops_no_push(lv_, nv_, filter_, sb) ==
  LET target_num_pops == constant_extension(from_canonical(sb.num_pops))
      len_diff == sub_extension(lv_.stack_len, target_num_pops)
      new_filter == mul_extension(filter_, len_diff)
      channel == Chan(nv_, 0)
      empty_stack_filter == mul_sub_extension(filter_, lv_.stack_inv_aux, filter_)
  IN << Transition(mul_sub_extension(new_filter, channel.used, new_filter)),
        Transition(mul_sub_extension(new_filter, channel.is_read, new_filter)),
        Transition(mul_extension(new_filter, sub_extension(channel.addr_context, nv_.context))),
        Transition(arithmetic_extension(1, Fneg(SegmentStack % P), new_filter, channel.addr_segment, new_filter)),
        Transition(arithmetic_extension(1, 1, new_filter,
                     sub_extension(channel.addr_virtual, nv_.stack_len), new_filter)),
        Constraint(mul_extension(filter_,
                     sub_extension(mul_extension(len_diff, lv_.stack_inv), lv_.stack_inv_aux))),
        Transition(mul_extension(empty_stack_filter, channel.used)) >>

\* lines 410-462
circuit_push_only(lv_, filter_) ==
  LET new_filter == mul_extension(lv_.stack_len, filter_)
      channel == Chan(lv_, NUM_GP_CHANNELS - 1)
      empty_stack_filter == mul_sub_extension(filter_, lv_.stack_inv_aux, filter_)
  IN << Constraint(mul_sub_extension(new_filter, channel.used, new_filter)),
        Constraint(mul_extension(new_filter, channel.is_read)),
        Constraint(mul_extension(new_filter, sub_extension(channel.addr_context, lv_.context))),
        Constraint(arithmetic_extension(1, Fneg(SegmentStack % P), new_filter, channel.addr_segment, new_filter)),
        Constraint(arithmetic_extension(1, 1, new_filter,
                     sub_extension(channel.addr_virtual, lv_.stack_len), new_filter)) >>
     \o [l \in 1 .. ValueLimbs |->
           Constraint(mul_extension(new_filter,
                        sub_extension(channel.value[l], Chan(lv_, 0).value[l])))]
     \o << Constraint(mul_extension(filter_,
                        sub_extension(mul_extension(lv_.stack_len, lv_.stack_inv),
                                      lv_.stack_inv_aux))),
           Constraint(mul_extension(empty_stack_filter, channel.used)) >>

\* lines 464-480
circuit_unchanged(lv_, nv_, filter_) ==
  << Constraint(mul_extension(filter_, Chan(nv_, 0).used)) >>
  \o [l \in 1 .. ValueLimbs |->
        Constraint(mul_extension(filter_,
                     sub_extension(Chan(lv_, 0).value[l], Chan(nv_, 0).value[l])))]

\* lines 484-494
circuit_next_top(lv_, nv_, filter_, sb) ==
  IF sb.new_top_stack_channel = -1 THEN <<>>
  ELSE [l \in 1 .. ValueLimbs |->
          Transition(mul_extension(filter_,
            sub_extension(Chan(lv_, sb.new_top_stack_channel).value[l],
                          Chan(nv_, 0).value[l])))]

\* lines 497-505
circuit_unused(lv_, filter_, sb) ==
  IF ~sb.disable_other_channels THEN <<>>
  ELSE LET lo == Max(1, sb.num_pops)
           hi == NUM_GP_CHANNELS - AsUsize(sb.pushes)
       IN [k \in 1 .. (hi - lo) |->
             Constraint(mul_extension(filter_, Chan(lv_, lo + k - 1).used))]

\* the new stack length with the push added to the pops instead of subtracted
circuit_stack_len_slip(lv_, nv_, filter_, sb) ==
  LET diff0 == constant_extension(ExtAdd(from_canonical(sb.num_pops),
                                         from_canonical(AsUsize(sb.pushes))))
      diff1 == sub_extension(lv_.stack_len, diff0)
      diff2 == sub_extension(nv_.stack_len, diff1)
  IN << Transition(mul_extension(filter_, diff2)) >>

\* lines 508-515
circuit_stack_len(lv_, nv_, filter_, sb) ==
  LET diff0 == constant_extension(ExtSub(from_canonical(sb.num_pops),
                                         from_canonical(AsUsize(sb.pushes))))
      diff1 == sub_extension(lv_.stack_len, diff0)
      diff2 == sub_extension(nv_.stack_len, diff1)
  IN << Transition(mul_extension(filter_, diff2)) >>

\* eval_ext_circuit_one: the constraints it yields, in order
eval_ext_circuit_one(lv_, nv_, filter_, sb) ==
  (IF sb.num_pops > 0
     THEN circuit_pops(lv_, filter_, sb)
          \o (IF ~sb.pushes THEN circuit_pops_no_push(lv_, nv_, filter_, sb) ELSE <<>>)
     ELSE IF sb.pushes THEN circuit_push_only(lv_, filter_)
     ELSE circuit_unchanged(lv_, nv_, filter_))
  \o circuit_next_top(lv_, nv_, filter_, sb)
  \o circuit_unused(lv_, filter_, sb)
  \o circuit_stack_len(lv_, nv_, filter_, sb)

(***************************************************************************)
(* The state of a run of prove.                                            *)
(***************************************************************************)
VARIABLES
  stark,                \* the argument stark: S
  config,               \* the argument config: StarkConfig
  trace,                \* the argument trace: Vec<[F; S::COLUMNS]>
  pc,                   \* the position of the run in prove
  degree_bits,
  trace_commitment,
  challenger,
  oracle,               \* the hash of the challenger, as sampled so far
  alphas,
  quotient_polys,
  all_quotient_chunks,
  quotient_commitment,
  zeta,
  openings,
  result,               \* what prove returned: ok(proof), err(msg) or panic(msg)
  events,               \* the commitments, observes and challenges so far, in order
  first,                \* what an earlier run on the same arguments produced, if any
  lde_reads,            \* the indices at which the quotient read the trace commitment
  lv,                   \* the argument lv: the current row of the CPU table
  nv,                   \* the argument nv: the next row
  filter,               \* the argument filter
  stack_behavior,       \* the argument stack_behavior
  yielded_packed,       \* what eval_packed_one gave its consumer, in order
  yielded_circuit,      \* what eval_ext_circuit_one gave its consumer, in order
  walk                  \* the rows accepted so far along a trace of the CPU table

vars ==
  <<stark, config, trace, pc, degree_bits, trace_commitment, challenger, oracle,
    alphas, quotient_polys, all_quotient_chunks, quotient_commitment, zeta,
    openings, result, events, first, lde_reads,
    lv, nv, filter, stack_behavior, yielded_packed, yielded_circuit, walk>>

stack_vars ==
  <<lv, nv, filter, stack_behavior, yielded_packed, yielded_circuit, walk>>
prove_vars ==
  <<stark, config, trace, pc, degree_bits, trace_commitment, challenger, oracle,
    alphas, quotient_polys, all_quotient_chunks, quotient_commitment, zeta,
    openings, result, events, first, lde_reads>>

NumChallenges == 2
CapHeight == 0

Rows(n) == [1 .. n -> [1 .. COLUMNS -> 0 .. MaxTraceVal]]
Traces == UNION {Rows(n) : n \in 0 .. MaxRows}

Configs ==
  [num_challenges : {NumChallenges},
   rate_bits : 1 .. MaxRateBits,
   cap_height : {CapHeight}]

\* the largest extended domain whose coset is disjoint from the native domain
MaxLde == Pow2(TwoAdicity - 1)

None == <<>>
NoResult == [kind |-> "none"]

\* the state of a run as prove is entered
Entered ==
  /\ pc = "start"
  /\ degree_bits = -1
  /\ trace_commitment = None
  /\ challenger = None
  /\ alphas = None
  /\ quotient_polys = None
  /\ all_quotient_chunks = None
  /\ quotient_commitment = None
  /\ zeta = None
  /\ openings = None
  /\ result = NoResult
  /\ events = <<>>
  /\ lde_reads = {}

\* no stack constraint is being evaluated
StackIdle ==
  /\ lv = None
  /\ nv = None
  /\ filter = None
  /\ stack_behavior = None
  /\ yielded_packed = None
  /\ yielded_circuit = None
  /\ walk = None

Init ==
  /\ stark \in Starks
  /\ config \in Configs
  /\ trace \in Traces
  /\ log2_strict(Len(trace)) # -1 => Len(trace) * Pow2(config.rate_bits) <= MaxLde
  /\ Entered
  /\ oracle = <<>>
  /\ first = None
  /\ StackIdle

degree == Len(trace)

\* a prove that rounds the length down to a power of two instead of failing
Log2Strict_coerce ==
  /\ pc = "start"
  /\ pc' = "trace_commitment"
  /\ degree_bits' = CHOOSE k \in 0 .. TwoAdicity :
                      /\ (Pow2(k) <= degree \/ k = 0)
                      /\ \A j \in 0 .. TwoAdicity : Pow2(j) <= degree => j <= k
  /\ UNCHANGED <<stack_vars, lde_reads, first, stark, config, trace, trace_commitment, challenger, oracle,
                 alphas, quotient_polys, all_quotient_chunks, quotient_commitment,
                 zeta, openings, result, events>>

\* lines 36-37: degree and log2_strict(degree), which panics on a non-power of two
Log2Strict ==
  /\ pc = "start"
  /\ IF log2_strict(degree) = -1
       THEN /\ pc' = "done"
            /\ result' = [kind |-> "panic", msg |-> "Not a power of two"]
            /\ UNCHANGED degree_bits
       ELSE /\ pc' = "trace_commitment"
            /\ degree_bits' = log2_strict(degree)
            /\ UNCHANGED result
  /\ UNCHANGED <<stack_vars, lde_reads, first, stark, config, trace, trace_commitment, challenger, oracle, alphas,
                 quotient_polys, all_quotient_chunks, quotient_commitment, zeta,
                 openings, events>>

\* lines 39-64: the trace polynomials and their commitment
TraceCommitment ==
  /\ pc = "trace_commitment"
  /\ trace_commitment' = from_values(transpose(trace), config.rate_bits)
  /\ events' = Append(events, "commit_trace")
  /\ pc' = "observe_trace_cap"
  /\ UNCHANGED <<stack_vars, lde_reads, first, stark, config, trace, degree_bits, challenger, oracle, alphas,
                 quotient_polys, all_quotient_chunks, quotient_commitment, zeta,
                 openings, result>>

\* a prove that creates the challenger and does not observe the trace cap
ObserveTraceCap_skipped ==
  /\ pc = "observe_trace_cap"
  /\ challenger' = ChallengerNew
  /\ pc' = "alphas"
  /\ UNCHANGED <<stack_vars, lde_reads, first, stark, config, trace, degree_bits, trace_commitment, oracle,
                 alphas, quotient_polys, all_quotient_chunks, quotient_commitment,
                 zeta, openings, result, events>>

\* lines 66-68: a new challenger observes the trace cap
ObserveTraceCap ==
  /\ pc = "observe_trace_cap"
  /\ challenger' = observe_cap(ChallengerNew, trace_commitment.cap)
  /\ events' = Append(events, "observe_trace_cap")
  /\ pc' = "alphas"
  /\ UNCHANGED <<stack_vars, lde_reads, first, stark, config, trace, degree_bits, trace_commitment, oracle, alphas,
                 quotient_polys, all_quotient_chunks, quotient_commitment, zeta,
                 openings, result>>

\* line 70: alphas = challenger.get_n_challenges(config.num_challenges)
GetAlphas ==
  /\ pc = "alphas"
  /\ \E vs \in [1 .. config.num_challenges -> ChallengeVals] :
       /\ HashGives(oracle, challenger, config.num_challenges, vs)
       /\ alphas' = vs
       /\ oracle' = Hashed(oracle, challenger, config.num_challenges, vs)
  /\ challenger' = after_challenges(challenger, config.num_challenges)
  /\ events' = Append(events, "alphas")
  /\ pc' = "quotient_polys"
  /\ UNCHANGED <<stack_vars, lde_reads, first, stark, config, trace, degree_bits, trace_commitment,
                 quotient_polys, all_quotient_chunks, quotient_commitment, zeta,
                 openings, result>>

\* lines 71-77: quotient_polys = compute_quotient_polys(...)
ComputeQuotientPolys ==
  /\ pc = "quotient_polys"
  /\ \E scheds \in [1 .. Len(alphas) -> Schedules(degree * Pow2(config.rate_bits))] :
       quotient_polys' =
         compute_quotient_polys(stark, trace_commitment, alphas, degree_bits,
                                config.rate_bits, scheds)
  /\ lde_reads' = UNION {lde_indices(degree * Pow2(config.rate_bits), i) :
                           i \in 0 .. (degree * Pow2(config.rate_bits) - 1)}
  /\ events' = Append(events, "quotient_polys")
  /\ pc' = "quotient_chunks"
  /\ UNCHANGED <<stack_vars, first, stark, config, trace, degree_bits, trace_commitment, challenger,
                 oracle, alphas, all_quotient_chunks, quotient_commitment, zeta,
                 openings, result>>

\* the closure padding to degree instead of degree << rate_bits
quotient_chunks_of_short(quotient_poly, deg, rate_bits) ==
  LET padded == pad(trim(quotient_poly), deg)
  IN [ok |-> padded.ok, chunks |-> chunks(padded.coeffs, deg)]

\* the closure cutting the polynomial to degree coefficients before the pad
quotient_chunks_of_truncated(quotient_poly, deg, rate_bits) ==
  LET cut == SubSeq(quotient_poly, 1, deg)
      padded == pad(trim(cut), deg * Pow2(rate_bits))
  IN [ok |-> padded.ok, chunks |-> chunks(padded.coeffs, deg)]

\* the closure of lines 80-87: trim, pad to degree << rate_bits, chunks(degree)
quotient_chunks_of(quotient_poly, deg, rate_bits) ==
  LET padded == pad(trim(quotient_poly), deg * Pow2(rate_bits))
  IN [ok |-> padded.ok, chunks |-> chunks(padded.coeffs, deg)]

\* lines 78-88 with the chunks collected in the order the workers complete
QuotientChunks_completion ==
  /\ pc = "quotient_chunks"
  /\ \E sched \in Schedules(Len(quotient_polys)) :
       LET parts ==
             ParCollect_completion(
               [a \in 1 .. Len(quotient_polys) |->
                  quotient_chunks_of(quotient_polys[a], Len(trace), config.rate_bits)],
               sched)
       IN /\ pc' = "quotient_commitment"
          /\ all_quotient_chunks' = Flatten([a \in 1 .. Len(parts) |-> parts[a].chunks])
          /\ UNCHANGED result
  /\ UNCHANGED <<stack_vars, lde_reads, first, stark, config, trace, degree_bits, trace_commitment, challenger,
                 oracle, alphas, quotient_polys, quotient_commitment, zeta,
                 openings, events>>

\* lines 78-88: all_quotient_chunks, or the panic of expect("Quotient has failed...")
QuotientChunks ==
  /\ pc = "quotient_chunks"
  /\ \E sched \in Schedules(Len(quotient_polys)) :
       LET parts ==
             ParCollect([a \in 1 .. Len(quotient_polys) |->
                           quotient_chunks_of(quotient_polys[a], degree, config.rate_bits)],
                        sched)
       IN IF \E a \in 1 .. Len(parts) : ~parts[a].ok
            THEN /\ pc' = "done"
                 /\ result' = [kind |-> "panic", msg |-> "Quotient has failed"]
                 /\ UNCHANGED all_quotient_chunks
            ELSE /\ pc' = "quotient_commitment"
                 /\ all_quotient_chunks' =
                      Flatten([a \in 1 .. Len(parts) |-> parts[a].chunks])
                 /\ UNCHANGED result
  /\ UNCHANGED <<stack_vars, lde_reads, first, stark, config, trace, degree_bits, trace_commitment, challenger,
                 oracle, alphas, quotient_polys, quotient_commitment, zeta,
                 openings, events>>

\* lines 89-100: quotient_commitment = PolynomialBatch::from_coeffs(...)
QuotientCommitment ==
  /\ pc = "quotient_commitment"
  /\ quotient_commitment' = from_coeffs(all_quotient_chunks, config.rate_bits)
  /\ events' = Append(events, "commit_quotient")
  /\ pc' = "observe_quotient_cap"
  /\ UNCHANGED <<stack_vars, lde_reads, first, stark, config, trace, degree_bits, trace_commitment, challenger,
                 oracle, alphas, quotient_polys, all_quotient_chunks, zeta,
                 openings, result>>

\* line 101: challenger.observe_cap(&quotient_commitment.merkle_tree.cap)
ObserveQuotientCap ==
  /\ pc = "observe_quotient_cap"
  /\ challenger' = observe_cap(challenger, quotient_commitment.cap)
  /\ events' = Append(events, "observe_quotient_cap")
  /\ pc' = "zeta"
  /\ UNCHANGED <<stack_vars, lde_reads, first, stark, config, trace, degree_bits, trace_commitment, oracle, alphas,
                 quotient_polys, all_quotient_chunks, quotient_commitment, zeta,
                 openings, result>>

\* line 103: zeta = challenger.get_extension_challenge::<D>()
GetZeta ==
  /\ pc = "zeta"
  /\ \E vs \in [1 .. 2 -> ChallengeVals] :
       /\ HashGives(oracle, challenger, 2, vs)
       /\ zeta' = vs
       /\ oracle' = Hashed(oracle, challenger, 2, vs)
  /\ challenger' = after_challenges(challenger, 2)
  /\ events' = Append(events, "zeta")
  /\ pc' = "check_zeta"
  /\ UNCHANGED <<stack_vars, lde_reads, first, stark, config, trace, degree_bits, trace_commitment, alphas,
                 quotient_polys, all_quotient_chunks, quotient_commitment,
                 openings, result>>

\* a check that rejects only zeta = 1
CheckZeta_one ==
  /\ pc = "check_zeta"
  /\ IF zeta # ExtOne
       THEN /\ pc' = "openings"
            /\ UNCHANGED result
       ELSE /\ pc' = "done"
            /\ result' = [kind |-> "err", msg |-> "Opening point is in the subgroup."]
  /\ UNCHANGED <<stack_vars, lde_reads, first, stark, config, trace, degree_bits, trace_commitment, challenger,
                 oracle, alphas, quotient_polys, all_quotient_chunks,
                 quotient_commitment, zeta, openings, events>>

\* a check whose failure is noted and does not end the run
CheckZeta_continue ==
  /\ pc = "check_zeta"
  /\ pc' = "openings"
  /\ IF exp_power_of_2(zeta, degree_bits) # ExtOne
       THEN UNCHANGED result
       ELSE result' = [kind |-> "err", msg |-> "Opening point is in the subgroup."]
  /\ UNCHANGED <<stack_vars, lde_reads, first, stark, config, trace, degree_bits, trace_commitment, challenger,
                 oracle, alphas, quotient_polys, all_quotient_chunks,
                 quotient_commitment, zeta, openings, events>>

\* lines 107-111: ensure!(zeta.exp_power_of_2(degree_bits) != ONE, ...)
CheckZeta ==
  /\ pc = "check_zeta"
  /\ IF exp_power_of_2(zeta, degree_bits) # ExtOne
       THEN /\ pc' = "openings"
            /\ UNCHANGED result
       ELSE /\ pc' = "done"
            /\ result' = [kind |-> "err", msg |-> "Opening point is in the subgroup."]
  /\ UNCHANGED <<stack_vars, lde_reads, first, stark, config, trace, degree_bits, trace_commitment, challenger,
                 oracle, alphas, quotient_polys, all_quotient_chunks,
                 quotient_commitment, zeta, openings, events>>

\* line 112: openings = StarkOpeningSet::new(zeta, g, ...)
Openings ==
  /\ pc = "openings"
  /\ openings' = StarkOpeningSet(zeta, ExtOf(primitive_root_of_unity(degree_bits)),
                                 trace_commitment, quotient_commitment)
  /\ events' = Append(events, "openings")
  /\ pc' = "prove_openings"
  /\ UNCHANGED <<stack_vars, lde_reads, first, stark, config, trace, degree_bits, trace_commitment, challenger,
                 oracle, alphas, quotient_polys, all_quotient_chunks,
                 quotient_commitment, zeta, result>>

\* PolynomialBatch::prove_openings(instance, trees, challenger, ...): the proof
\* is a function of the instance, the committed batches and the challenge drawn
prove_openings(instance, trees, fri_alpha) ==
  [instance |-> instance,
   caps |-> [t \in 1 .. Len(trees) |-> trees[t].cap],
   fri_alpha |-> fri_alpha]

\* lines 115-134: the opening proof, and Ok(StarkProof {...})
ProveOpenings ==
  /\ pc = "prove_openings"
  /\ \E vs \in [1 .. 1 -> ChallengeVals] :
       /\ HashGives(oracle, challenger, 1, vs)
       /\ oracle' = Hashed(oracle, challenger, 1, vs)
       /\ result' =
            [kind |-> "ok",
             proof |->
               [trace_cap |-> trace_commitment.cap,
                openings |-> openings,
                opening_proof |->
                  prove_openings(
                    fri_instance(zeta, ExtOf(primitive_root_of_unity(degree_bits)),
                                 config.rate_bits),
                    <<trace_commitment, quotient_commitment>>, vs[1])]]
  /\ challenger' = after_challenges(challenger, 1)
  /\ events' = Append(events, "opening_proof")
  /\ pc' = "done"
  /\ UNCHANGED <<stack_vars, lde_reads, first, stark, config, trace, degree_bits, trace_commitment, alphas,
                 quotient_polys, all_quotient_chunks, quotient_commitment, zeta,
                 openings>>

Next ==
  \/ Log2Strict
  \/ TraceCommitment
  \/ ObserveTraceCap
  \/ GetAlphas
  \/ ComputeQuotientPolys
  \/ QuotientChunks
  \/ QuotientCommitment
  \/ ObserveQuotientCap
  \/ GetZeta
  \/ CheckZeta
  \/ Openings
  \/ ProveOpenings

Spec == Init /\ [][Next]_vars

(***************************************************************************)
(* Two runs of prove on the same arguments, one after the other, under the *)
(* same hash: the second run starts when the first has returned.           *)
(***************************************************************************)
\* traces of the two-run specification have 0..TwoRunMaxRows rows
TwoRunMaxRows == 2

TwoRunStarks == {[mul |-> P - 1, add |-> 1, last |-> 1]}

InitTwoRuns ==
  /\ stark \in TwoRunStarks
  /\ config \in Configs
  /\ trace \in UNION {Rows(n) : n \in 0 .. TwoRunMaxRows}
  /\ log2_strict(Len(trace)) # -1 => Len(trace) * Pow2(config.rate_bits) <= MaxLde
  /\ Entered
  /\ oracle = <<>>
  /\ first = None
  /\ StackIdle

\* prove is called again with the same stark, config and trace
Rerun ==
  /\ pc = "done"
  /\ first = None
  /\ first' = [result |-> result, alphas |-> alphas, zeta |-> zeta]
  /\ pc' = "start"
  /\ degree_bits' = -1
  /\ trace_commitment' = None
  /\ challenger' = None
  /\ alphas' = None
  /\ quotient_polys' = None
  /\ all_quotient_chunks' = None
  /\ quotient_commitment' = None
  /\ zeta' = None
  /\ openings' = None
  /\ result' = NoResult
  /\ events' = <<>>
  /\ lde_reads' = {}
  /\ UNCHANGED <<stack_vars, stark, config, trace, oracle>>

NextTwoRuns ==
  \/ Next
  \/ Rerun

SpecTwoRuns == InitTwoRuns /\ [][NextTwoRuns]_vars

(***************************************************************************)
(* The stack constraints of one operation, evaluated by both               *)
(* implementations on the same rows, filter and behaviour.                 *)
(***************************************************************************)
\* rows are drawn for the seeds 0..MaxSeed
MaxSeed == 2

\* the value of cell k of the row drawn for a seed
Cell(seed, k) ==
  << (seed * seed + 3 * k * k + 5 * k * seed + k + 1) % P,
     (2 * seed + k * k * k + 7 * k + 3) % P >>

\* a memory channel of a row whose cells start at k
ChannelAt(seed, k) ==
  [used |-> Cell(seed, k),
   is_read |-> Cell(seed, k + 1),
   addr_context |-> Cell(seed, k + 2),
   addr_segment |-> Cell(seed, k + 3),
   addr_virtual |-> Cell(seed, k + 4),
   value |-> [l \in 1 .. ValueLimbs |-> Cell(seed, k + 4 + l)]]

\* a row of the CPU table: the columns the stack constraints read
RowAt(seed, k) ==
  [mem_channels |-> [c \in 1 .. NUM_GP_CHANNELS |-> ChannelAt(seed, k + 10 * c)],
   context |-> Cell(seed, k),
   stack_len |-> Cell(seed, k + 1),
   stack_inv |-> Cell(seed, k + 2),
   stack_inv_aux |-> Cell(seed, k + 3)]

InitStack ==
  /\ \E seed \in 0 .. MaxSeed :
       /\ lv = RowAt(seed, 0)
       /\ nv = RowAt(seed, 100)
       /\ filter \in {ExtZero, ExtOne, Cell(seed, 200)}
  /\ stack_behavior \in StackBehaviors
  /\ yielded_packed = None
  /\ yielded_circuit = None
  /\ walk = None
  /\ stark = None
  /\ config = None
  /\ trace = None
  /\ Entered
  /\ oracle = <<>>
  /\ first = None

\* eval_packed_one(lv, nv, filter, stack_behavior, yield_constr)
EvalPackedOne ==
  /\ lv # None
  /\ walk = None
  /\ yielded_packed = None
  /\ yielded_packed' = eval_packed_one(lv, nv, filter, stack_behavior)
  /\ UNCHANGED <<prove_vars, lv, nv, filter, stack_behavior, yielded_circuit, walk>>

\* eval_ext_circuit_one(builder, lv, nv, filter, stack_behavior, yield_constr)
EvalExtCircuitOne ==
  /\ lv # None
  /\ walk = None
  /\ yielded_circuit = None
  /\ yielded_circuit' = eval_ext_circuit_one(lv, nv, filter, stack_behavior)
  /\ UNCHANGED <<prove_vars, lv, nv, filter, stack_behavior, yielded_packed, walk>>

NextStack ==
  \/ EvalPackedOne
  \/ EvalExtCircuitOne

SpecStack == InitStack /\ [][NextStack]_vars

(***************************************************************************)
(* The stack constraints of one operation on rows of the CPU table as a    *)
(* trace generator lays them out: the channels an operation reads hold     *)
(* its stack reads, and the cells of the empty-stack gadget and of the     *)
(* extra read of the next row range over small sets, right and wrong.      *)
(***************************************************************************)
\* stack lengths 0..MaxStackLen
MaxStackLen == 3
\* the cell stack_inv_aux, and the flag used of the next row's channel 0, in 0..MaxFlag
MaxFlag == 2

\* a channel that reads the stack of context ctx at addr
StackRead(ctx, addr) ==
  [used |-> ExtOne,
   is_read |-> ExtOne,
   addr_context |-> ctx,
   addr_segment |-> from_canonical(SegmentStack),
   addr_virtual |-> addr,
   value |-> [l \in 1 .. ValueLimbs |-> ExtZero]]

\* a disabled channel
ChannelOff ==
  [used |-> ExtZero,
   is_read |-> ExtZero,
   addr_context |-> ExtZero,
   addr_segment |-> ExtZero,
   addr_virtual |-> ExtZero,
   value |-> [l \in 1 .. ValueLimbs |-> ExtZero]]

\* the context of the rows
RowContext == from_canonical(2)

\* the current row of an operation of behaviour sb on a stack of length len:
\* channel i reads stack[len - 1 - i] for 0 < i < num_pops, the others are off
CurrentRow(sb, len, inv, aux) ==
  [mem_channels |->
     [c \in 1 .. NUM_GP_CHANNELS |->
        IF c - 1 >= 1 /\ c - 1 < sb.num_pops
          THEN StackRead(RowContext, ExtSub(from_canonical(len), from_canonical(c)))
          ELSE ChannelOff],
   context |-> RowContext,
   stack_len |-> from_canonical(len),
   stack_inv |-> ExtOf(inv),
   stack_inv_aux |-> ExtOf(aux)]

\* the next row: its channel 0 holds the extra read of the new top of the stack,
\* with the flags used and is_read as given
FollowingRow(len, used, is_read) ==
  [mem_channels |->
     [c \in 1 .. NUM_GP_CHANNELS |->
        IF c = 1
          THEN [StackRead(RowContext, ExtSub(from_canonical(len), ExtOne))
                  EXCEPT !.used = ExtOf(used), !.is_read = ExtOf(is_read)]
          ELSE ChannelOff],
   context |-> RowContext,
   stack_len |-> from_canonical(len),
   stack_inv |-> ExtZero,
   stack_inv_aux |-> ExtZero]

\* the behaviours that pop without pushing
PopOnlyBehaviors == {sb \in StackBehaviors : sb.num_pops > 0 /\ ~sb.pushes}

InitStackRows ==
  /\ stack_behavior \in {sb \in PopOnlyBehaviors : sb.new_top_stack_channel = -1}
  /\ \E len \in 0 .. MaxStackLen, inv \in F, aux \in 0 .. MaxFlag,
        used \in 0 .. MaxFlag, is_read \in 0 .. 1 :
       /\ lv = CurrentRow(stack_behavior, len, inv, aux)
       /\ nv = FollowingRow((len + P - stack_behavior.num_pops) % P, used, is_read)
  /\ filter = ExtOne
  /\ yielded_packed = None
  /\ yielded_circuit = None
  /\ walk = None
  /\ stark = None
  /\ config = None
  /\ trace = None
  /\ Entered
  /\ oracle = <<>>
  /\ first = None

SpecStackRows == InitStackRows /\ [][NextStack]_vars

(***************************************************************************)
(* eval_packed along a trace of the CPU table: each row runs one operation *)
(* of STACK_BEHAVIORS, a candidate next row is evaluated against it, and   *)
(* the trace moves on to the candidate when every constraint vanishes.     *)
(***************************************************************************)
\* the row pairs accepted along a trace are at most MaxWalk
MaxWalk == 2
\* by how much the stack length of a candidate next row misses the right one
Slips == {-1, 0}

Behavior(pops, push, top, disable) ==
  [num_pops |-> pops, pushes |-> push, new_top_stack_channel |-> top,
   disable_other_channels |-> disable]

BASIC_BINARY_OP == Behavior(2, TRUE, NUM_GP_CHANNELS - 1, TRUE)
BASIC_TERNARY_OP == Behavior(3, TRUE, NUM_GP_CHANNELS - 1, TRUE)

\* the fields of OpsColumnsView, in order
OpNames ==
  <<"binary_op", "ternary_op", "fp254_op", "eq_iszero", "logic_op", "not", "shift",
    "keccak_general", "prover_input", "pop", "jumps", "pc", "jumpdest", "push0",
    "push", "dup", "swap", "get_context", "set_context", "mload_32bytes",
    "mstore_32bytes", "exit_kernel", "m_op_general", "syscall", "exception">>

\* STACK_BEHAVIORS: Some(behaviour), or None
STACK_BEHAVIORS ==
  [o \in {OpNames[k] : k \in 1 .. Len(OpNames)} |->
     CASE o = "binary_op" -> BASIC_BINARY_OP
       [] o = "ternary_op" -> BASIC_TERNARY_OP
       [] o = "fp254_op" -> BASIC_BINARY_OP
       [] o = "logic_op" -> BASIC_BINARY_OP
       [] o = "not" -> Behavior(1, TRUE, NUM_GP_CHANNELS - 1, TRUE)
       [] o = "shift" -> Behavior(2, TRUE, NUM_GP_CHANNELS - 1, FALSE)
       [] o = "keccak_general" -> Behavior(4, TRUE, NUM_GP_CHANNELS - 1, TRUE)
       [] o = "pop" -> Behavior(1, FALSE, -1, TRUE)
       [] o = "pc" -> Behavior(0, TRUE, -1, TRUE)
       [] o = "jumpdest" -> Behavior(0, FALSE, -1, TRUE)
       [] o = "push0" -> Behavior(0, TRUE, -1, TRUE)
       [] o = "get_context" -> Behavior(0, TRUE, -1, TRUE)
       [] o = "mload_32bytes" -> Behavior(4, TRUE, 4, FALSE)
       [] o = "mstore_32bytes" -> Behavior(5, FALSE, -1, FALSE)
       [] o = "exit_kernel" -> Behavior(1, FALSE, -1, TRUE)
       [] o = "syscall" -> Behavior(0, TRUE, -1, FALSE)
       [] o = "exception" -> Behavior(0, TRUE, -1, FALSE)
       [] OTHER -> None]

\* the operations with a defined behaviour
DefinedOps == {o \in DOMAIN STACK_BEHAVIORS : STACK_BEHAVIORS[o] # None}

\* eval_packed: eval_packed_one for every operation with a behaviour, with the
\* flag of the operation as filter
eval_packed(lv_, nv_) ==
  Flatten([k \in 1 .. Len(OpNames) |->
             IF STACK_BEHAVIORS[OpNames[k]] = None THEN <<>>
             ELSE eval_packed_one(lv_, nv_, lv_.op[OpNames[k]],
                                  STACK_BEHAVIORS[OpNames[k]])])

\* what is left of the stack is not empty: the length differs from the pops
NonEmptyAfter(sb, len) == (len + P - sb.num_pops) % P # 0

\* the row of the operation o on a stack of length len, whose channel 0 has the
\* flag used0: the reads of the popped elements, the write of the old top for
\* an operation that only pushes, and the cells of the empty-stack gadget
WalkRow(o, len, used0) ==
  LET sb == STACK_BEHAVIORS[o]
      d == IF sb.num_pops > 0 THEN (len + P - sb.num_pops) % P ELSE len % P
      gadget == (sb.num_pops > 0 /\ ~sb.pushes) \/ (sb.num_pops = 0 /\ sb.pushes)
      top == ExtSub(from_canonical(len), ExtOne)
  IN [op |-> [n \in DOMAIN STACK_BEHAVIORS |-> IF n = o THEN ExtOne ELSE ExtZero],
      mem_channels |->
        [c \in 1 .. NUM_GP_CHANNELS |->
           CASE c = 1 -> [StackRead(RowContext, top) EXCEPT !.used = ExtOf(used0)]
             [] c > 1 /\ c - 1 < sb.num_pops ->
                  StackRead(RowContext, ExtSub(from_canonical(len), from_canonical(c)))
             [] c = NUM_GP_CHANNELS /\ sb.num_pops = 0 /\ sb.pushes /\ len % P # 0 ->
                  [StackRead(RowContext, top) EXCEPT !.is_read = ExtZero]
             [] OTHER -> ChannelOff],
      context |-> RowContext,
      stack_len |-> from_canonical(len),
      stack_inv |-> IF gadget THEN ExtOf(Finv(d)) ELSE ExtZero,
      stack_inv_aux |-> IF gadget /\ d # 0 THEN ExtOne ELSE ExtZero]

\* the flag used of the channel 0 of the row after an operation of behaviour sb
\* on a stack of length len: the extra read of the new top, when there is one
UsedAfter(sb, len) ==
  IF sb.num_pops > 0 /\ ~sb.pushes /\ NonEmptyAfter(sb, len) THEN 1 ELSE 0

\* the stack length an operation of behaviour sb leaves, len being the one it found
LenAfter(sb, len) == (len + P - sb.num_pops + AsUsize(sb.pushes)) % P

\* the operations of the candidate rows: one that pops and pushes, one that only
\* pops, one that only pushes, one that does neither
FollowOps == {"binary_op", "pop", "push0", "jumpdest"}

\* the candidates for the row after the operation o on a stack of length len
Candidates(o, len) ==
  { WalkRow(o2, (LenAfter(STACK_BEHAVIORS[o], len) + P + slip) % P,
            UsedAfter(STACK_BEHAVIORS[o], len)) :
      o2 \in FollowOps, slip \in Slips }

\* the operation a row runs
OpOf(row) == CHOOSE o \in DOMAIN row.op : row.op[o] = ExtOne

InitStackTrace ==
  /\ \E o \in DefinedOps, len \in 0 .. MaxStackLen :
       /\ lv = WalkRow(o, len, 0)
       /\ nv \in Candidates(o, len)
       /\ walk = [len0 |-> len, pops |-> 0, pushes |-> 0, rows |-> 0]
  /\ filter = None
  /\ stack_behavior = None
  /\ yielded_packed = None
  /\ yielded_circuit = None
  /\ stark = None
  /\ config = None
  /\ trace = None
  /\ Entered
  /\ oracle = <<>>
  /\ first = None

\* eval_packed(lv, nv, yield_constr)
EvalPacked ==
  /\ walk # None
  /\ yielded_packed = None
  /\ yielded_packed' = eval_packed(lv, nv)
  /\ UNCHANGED <<prove_vars, lv, nv, filter, stack_behavior, yielded_circuit, walk>>

\* every constraint vanished on (lv, nv): the trace moves on to nv, and a
\* candidate for the row after it is drawn
NextRowPair ==
  /\ walk # None
  /\ yielded_packed # None
  /\ \A j \in 1 .. Len(yielded_packed) : yielded_packed[j][2] = ExtZero
  /\ walk.rows < MaxWalk
  /\ walk' = [walk EXCEPT !.pops = @ + STACK_BEHAVIORS[OpOf(lv)].num_pops,
                          !.pushes = @ + AsUsize(STACK_BEHAVIORS[OpOf(lv)].pushes),
                          !.rows = @ + 1]
  /\ lv' = nv
  /\ \E len \in 0 .. (P - 1) :
       /\ nv.stack_len = from_canonical(len)
       /\ nv' \in Candidates(OpOf(nv), len)
  /\ yielded_packed' = None
  /\ UNCHANGED <<prove_vars, filter, stack_behavior, yielded_circuit>>

NextStackTrace ==
  \/ EvalPacked
  \/ NextRowPair

SpecStackTrace == InitStackTrace /\ [][NextStackTrace]_vars

(***************************************************************************)
(* What the claims speak of.                                               *)
(***************************************************************************)
IsPrefix(s, t) == Len(s) <= Len(t) /\ \A i \in 1 .. Len(s) : s[i] = t[i]

\* the transcript events of a complete run, in order
ExpectedEvents ==
  <<"commit_trace", "observe_trace_cap", "alphas", "quotient_polys",
    "commit_quotient", "observe_quotient_cap", "zeta", "openings", "opening_proof">>

RECURSIVE TranscriptOf(_)
\* the challenger state that the events ev leave behind
TranscriptOf(ev) ==
  IF ev = <<>> THEN None
  ELSE LET prev == TranscriptOf(SubSeq(ev, 1, Len(ev) - 1))
           e == ev[Len(ev)]
       IN CASE e = "observe_trace_cap" -> observe_cap(prev, trace_commitment.cap)
            [] e = "alphas" -> after_challenges(prev, config.num_challenges)
            [] e = "observe_quotient_cap" -> observe_cap(prev, quotient_commitment.cap)
            [] e = "zeta" -> after_challenges(prev, 2)
            [] e = "opening_proof" -> after_challenges(prev, 1)
            [] OTHER -> prev

\* the caps observed in the challenger state s, in order
ObservedCaps(s) ==
  LET idx == {i \in 1 .. Len(s) : s[i].op = "observe"}
      RECURSIVE pick(_)
      pick(k) == IF k = 0 THEN <<>>
                 ELSE IF k \in idx THEN Append(pick(k - 1), s[k].cap) ELSE pick(k - 1)
  IN pick(Len(s))

\* the variables of row r (1-based) of the trace tr, with its cyclic successor
RowVars(tr, r) ==
  [local_values |-> tr[r],
   next_values |-> tr[(r % Len(tr)) + 1],
   public_inputs |-> [k \in 1 .. PUBLIC_INPUTS |-> 0]]

\* every constraint of the stark vanishes at row r of the native domain
RowSatisfies(st, tr, r) ==
  \A alpha \in F :
    accumulator(
      eval_packed_base(st, RowVars(tr, r),
                       ConsumerNew(alpha, IF r = 1 THEN 1 ELSE 0,
                                   IF r = Len(tr) THEN 1 ELSE 0))) = 0

ValidTrace(st, tr) == \A r \in 1 .. Len(tr) : RowSatisfies(st, tr, r)
ViolatesSomeRow(st, tr) == \E r \in 1 .. Len(tr) : ~RowSatisfies(st, tr, r)

\* the accumulator of the stark's constraints over the extension field
AccumulateExt(st, local, next, alpha, lagrange_first, lagrange_last) ==
  LET c1 == ExtMul(ExtSub(local[1], ExtZero), lagrange_first)
      c2 == ExtMul(ExtSub(local[1], ExtOf(st.last)), lagrange_last)
      c3 == ExtSub(next[1], ExtAdd(ExtScale(local[1], st.mul), ExtOf(st.add)))
  IN ExtAdd(ExtScale(ExtAdd(ExtScale(c1, alpha), c2), alpha), c3)

RECURSIVE ExtSumTo(_, _)
ExtSumTo(f, n) == IF n = 0 THEN ExtZero ELSE ExtAdd(ExtSumTo(f, n - 1), f[n])

\* the quotient of alpha number a at zeta, reassembled from the opened chunks
QuotientAtZeta(a) ==
  LET m == Pow2(config.rate_bits)
  IN ExtSumTo([j \in 1 .. m |->
                 ExtMul(openings.quotient_polys[(a - 1) * m + j],
                        ExtPow(zeta, (j - 1) * degree))], m)

\* Z_H(zeta) = zeta^degree - 1
ZHAtZeta == ExtSub(ExtPow(zeta, degree), ExtOne)

\* the Lagrange selector of row r of the native domain, at zeta
LagrangeAtZeta(r) ==
  EvalPolyExt(ifft([k \in 1 .. degree |-> IF k = r THEN 1 ELSE 0]), zeta)

\* C1: the transcript events of every run are a prefix of: trace commitment,
\* trace cap observed, alphas, quotient polynomials, quotient commitment, quotient
\* cap observed, zeta, openings, opening proof; the challenger holds exactly what
\* these events absorbed and squeezed, and every state it hashed ends a transcript
\* whose observed caps are those of all the commitments built until then.
C1_PhaseOrder ==
  /\ IsPrefix(events, ExpectedEvents)
  /\ challenger = TranscriptOf(events)
  /\ (pc = "done" /\ result.kind = "ok") => events = ExpectedEvents
  /\ \A s \in DOMAIN oracle :
       \/ ObservedCaps(s) = <<trace_commitment.cap>> /\ Len(s) < 1 + config.num_challenges
       \/ /\ quotient_commitment # None
          /\ ObservedCaps(s) = <<trace_commitment.cap, quotient_commitment.cap>>
          /\ Len(s) >= 2 + config.num_challenges

C1_Witness == pc = "done" /\ result.kind = "ok" /\ Len(events) = 9

\* C2: once zeta is checked, zeta^(2^degree_bits) = 1 exactly when prove has
\* returned the error "Opening point is in the subgroup." with no opening set
\* computed; otherwise no error is returned and the run goes on to the openings.
C2_ZetaRejection ==
  (zeta # None /\ pc # "check_zeta") =>
    IF ExtPow(zeta, Pow2(degree_bits)) = ExtOne
      THEN /\ pc = "done"
           /\ result = [kind |-> "err", msg |-> "Opening point is in the subgroup."]
           /\ openings = None
      ELSE /\ result.kind \in {"none", "ok"}
           /\ pc \in {"openings", "prove_openings", "done"}
           /\ pc # "openings" => openings # None

C2_Witness ==
  /\ result.kind = "err"
  /\ zeta = <<4, 0>>
  /\ degree_bits = 2

\* every check of prove passed: power-of-two length, quotient padding, zeta
ChecksPassed ==
  /\ log2_strict(Len(trace)) # -1
  /\ \A a \in 1 .. Len(quotient_polys) :
       Len(trim(quotient_polys[a])) <= degree * Pow2(config.rate_bits)
  /\ zeta # None
  /\ ExtPow(zeta, Pow2(degree_bits)) # ExtOne

\* C3: a run has returned exactly when it is done; a returned proof is complete
\* (trace cap, openings, opening proof) and every check passed; a failure carries
\* no proof.
C3_AllOrNothing ==
  /\ (pc = "done") <=> (result.kind # "none")
  /\ result.kind \in {"none", "ok", "err", "panic"}
  /\ result.kind = "ok" =>
       /\ DOMAIN result = {"kind", "proof"}
       /\ DOMAIN result.proof = {"trace_cap", "openings", "opening_proof"}
       /\ result.proof.trace_cap = trace_commitment.cap
       /\ result.proof.openings = openings
       /\ openings # None
       /\ result.proof.opening_proof.instance = fri_instance(zeta, ExtOf(primitive_root_of_unity(degree_bits)), config.rate_bits)
       /\ ChecksPassed
  /\ result.kind \in {"err", "panic"} => DOMAIN result = {"kind", "msg"}

C3_Witness == result.kind = "err" /\ quotient_commitment # None

\* C4 (as claimed): a trace that violates a constraint at some row makes the
\* quotient construction panic with "Quotient has failed", and no quotient
\* commitment is built.
C4_ViolationAborts ==
  (quotient_polys # None /\ pc # "quotient_chunks" /\ ViolatesSomeRow(stark, trace)) =>
    /\ result = [kind |-> "panic", msg |-> "Quotient has failed"]
    /\ quotient_commitment = None

\* C5 (as claimed): for a trace all of whose cyclic row pairs satisfy the
\* constraints, a run whose zeta passes the check returns a proof, and for every
\* alpha quotient(zeta) * Z_H(zeta) = accumulate(trace(zeta), trace(g * zeta)).
C5_QuotientIdentity ==
  (pc = "done" /\ degree_bits # -1 /\ ValidTrace(stark, trace)
     /\ ExtPow(zeta, Pow2(degree_bits)) # ExtOne) =>
    /\ result.kind = "ok"
    /\ \A a \in 1 .. Len(alphas) :
         ExtMul(QuotientAtZeta(a), ZHAtZeta) =
           AccumulateExt(stark, openings.local_values, openings.next_values,
                         alphas[a], LagrangeAtZeta(1), LagrangeAtZeta(degree))

\* the chunks of alpha number a, reassembled and evaluated at x
Reassembled(polys, a, x) ==
  LET m == Pow2(config.rate_bits)
  IN SumTo([j \in 0 .. (m - 1) |->
              Fmul(EvalPoly(polys[(a - 1) * m + j + 1], x), Fpow(x, j * degree))], m)

\* C6: the chunks of each quotient polynomial reassemble to it, q(x) = sum of
\* c_j(x) * x^(j * degree) at every point x of the field, the chunks being laid out
\* in alpha order with the chunk order kept; the commitment holds them in that order.
C6_ChunksLossless ==
  /\ pc = "quotient_commitment" =>
       /\ Len(all_quotient_chunks) = Len(quotient_polys) * Pow2(config.rate_bits)
       /\ \A a \in 1 .. Len(quotient_polys) : \A x \in F :
            EvalPoly(quotient_polys[a], x) = Reassembled(all_quotient_chunks, a, x)
  /\ quotient_commitment # None =>
       quotient_commitment.polynomials = all_quotient_chunks

C6_Witness ==
  /\ pc = "quotient_commitment"
  /\ config.rate_bits = 2
  /\ quotient_polys[1] # quotient_polys[2]
  /\ \E a \in 1 .. 2 : Len(trim(quotient_polys[a])) > degree

C8_CommittedDegrees ==
  /\ trace_commitment # None =>
       /\ Len(trace_commitment.polynomials) = COLUMNS
       /\ \A p \in 1 .. COLUMNS : Len(trace_commitment.polynomials[p]) = degree
  /\ quotient_commitment # None =>
       /\ Len(quotient_commitment.polynomials) =
            config.num_challenges * Pow2(config.rate_bits)
       /\ \A p \in 1 .. Len(quotient_commitment.polynomials) :
            Len(quotient_commitment.polynomials[p]) = degree

C8_Witness ==
  /\ quotient_commitment # None
  /\ config.rate_bits = 2
  /\ degree = 2
  /\ \E a \in 1 .. 2 : Len(trim(quotient_polys[a])) < degree

\* C9: on the same behaviour, filter and rows, eval_packed_one and
\* eval_ext_circuit_one yield the same constraint values, each of the same
\* kind (constraint or constraint_transition), in the same order.
C9_PackedCircuitAgree ==
  (yielded_packed # None /\ yielded_circuit # None) =>
    yielded_packed = yielded_circuit

\* both have evaluated a binary operation under a filter that is neither 0
\* nor 1, and yielded constraints of both kinds, not all of them zero
C9_Witness ==
  /\ yielded_packed # None
  /\ yielded_circuit # None
  /\ stack_behavior = [num_pops |-> 2, pushes |-> TRUE,
                       new_top_stack_channel |-> NUM_GP_CHANNELS - 1,
                       disable_other_channels |-> TRUE]
  /\ filter \notin {ExtZero, ExtOne}
  /\ \E j \in 1 .. Len(yielded_circuit) :
       yielded_circuit[j][1] = "constraint" /\ yielded_circuit[j][2] # ExtZero
  /\ \E j \in 1 .. Len(yielded_circuit) :
       yielded_circuit[j][1] = "constraint_transition" /\ yielded_circuit[j][2] # ExtZero

\* C10: on a trace whose length is no power of two, prove panics at once:
\* no commitment is built, the challenger is never created, nothing is hashed,
\* and no proof is returned.
C10_NotPowerOfTwo ==
  log2_strict(Len(trace)) = -1 =>
    /\ pc \in {"start", "done"}
    /\ pc = "done" => result = [kind |-> "panic", msg |-> "Not a power of two"]
    /\ trace_commitment = None
    /\ quotient_commitment = None
    /\ challenger = None
    /\ oracle = <<>>
    /\ events = <<>>

C10_Witness == Len(trace) = 3 /\ pc = "done"

\* the extended point number i: coset_shift * w^i, w of order degree << rate_bits
ExtendedPoint(i) ==
  Fmul(coset_shift, Fpow(primitive_root_of_unity(degree_bits + config.rate_bits), i))

\* the indicator of row r of the native domain, at the extended point i
LagrangeAtPoint(r, i) ==
  EvalPoly(ifft([k \in 1 .. degree |-> IF k = r THEN 1 ELSE 0]), ExtendedPoint(i))

\* the constraints of the stark at the extended point i, with the row of the
\* point j as next row, combined with alpha
AccumulateAt(alpha, i, j) ==
  LET local == trace_commitment.leaves[i + 1][1]
      next == trace_commitment.leaves[j + 1][1]
      c1 == Fmul(local, LagrangeAtPoint(1, i))
      c2 == Fmul(Fsub(local, stark.last), LagrangeAtPoint(degree, i))
      c3 == Fsub(next, Fadd(Fmul(stark.mul, local), stark.add))
  IN Fadd(Fmul(Fadd(Fmul(c1, alpha), c2), alpha), c3)

\* C11: entry i of the quotient evaluations of every alpha is the accumulated
\* constraints at local = lde_values(i), next = lde_values((i + 1) mod n),
\* n = degree << rate_bits, times the inverse of Z_H at the point i; the last
\* index takes index 0 as its next row; the indices read are those of 0 .. n - 1.
\* Stated of the quotient as compute_quotient_polys returns it.
C11_QuotientEntries ==
  pc = "quotient_chunks" =>
    LET n == degree * Pow2(config.rate_bits)
    IN /\ \A a \in 1 .. Len(alphas) : \A i \in 0 .. (n - 1) :
            coset_fft(quotient_polys[a], coset_shift)[i + 1] =
              Fmul(AccumulateAt(alphas[a], i, IF i = n - 1 THEN 0 ELSE i + 1),
                   Finv(Fsub(Fpow(ExtendedPoint(i), degree), 1)))
       /\ lde_reads = 0 .. (n - 1)

\* the quotient of a trace of four rows whose extended values at the last point
\* and at the point before it differ from the value at the first
C11_Witness ==
  /\ pc = "quotient_chunks"
  /\ degree = 4
  /\ LET n == degree * Pow2(config.rate_bits)
     IN /\ trace_commitment.leaves[n] # trace_commitment.leaves[1]
        /\ trace_commitment.leaves[n - 1] # trace_commitment.leaves[1]
        /\ \E a \in 1 .. Len(alphas) : \E i \in 1 .. n :
             coset_fft(quotient_polys[a], coset_shift)[i] # 0

\* the quotient values of alpha number a, evaluated one point after the other
SequentialEvals(a) ==
  LET n == degree * Pow2(config.rate_bits)
      RECURSIVE upto(_)
      upto(k) ==
        IF k = 0 THEN <<>>
        ELSE Append(upto(k - 1),
               quotient_eval_at(stark, trace_commitment, alphas[a], degree_bits,
                                config.rate_bits,
                                lde([r \in 1 .. degree |-> IF r = 1 THEN 1 ELSE 0],
                                    config.rate_bits),
                                lde([r \in 1 .. degree |-> IF r = degree THEN 1 ELSE 0],
                                    config.rate_bits),
                                k - 1))
  IN upto(n)

\* the chunks of the quotient polynomials, taken one polynomial after the other
RECURSIVE SequentialChunks(_)
SequentialChunks(k) ==
  IF k = 0 THEN <<>>
  ELSE SequentialChunks(k - 1)
         \o quotient_chunks_of(quotient_polys[k], degree, config.rate_bits).chunks

\* what the workers of the parallel sections only read
SharedWhileParallel ==
  <<stark, config, trace, degree_bits, trace_commitment, alphas, challenger, oracle,
    quotient_commitment, zeta, openings, first>>

\* a step of a parallel section changes none of what its workers share
ParallelStepOnlyReads ==
  pc \in {"quotient_polys", "quotient_chunks"} =>
    /\ SharedWhileParallel' = SharedWhileParallel
    /\ pc = "quotient_chunks" => quotient_polys' = quotient_polys

AllVanish(y) == \A j \in 1 .. Len(y) : y[j][2] = ExtZero

\* C13: for an operation that pops without pushing, on a row pair with filter 1
\* on which every constraint yielded by eval_packed_one vanishes: stack_inv_aux =
\* (stack_len - num_pops) * stack_inv; when stack_len differs from num_pops the
\* channel 0 of the next row is used, reads, and addresses the top of the stack of
\* the next row; when stack_len = num_pops that channel is not used.
C13_EmptyStackGadget ==
  (yielded_packed # None /\ stack_behavior.num_pops > 0 /\ ~stack_behavior.pushes
     /\ filter = ExtOne /\ AllVanish(yielded_packed)) =>
    LET len_diff == ExtSub(lv.stack_len, from_canonical(stack_behavior.num_pops))
        channel == Chan(nv, 0)
    IN /\ lv.stack_inv_aux = ExtMul(len_diff, lv.stack_inv)
       /\ len_diff # ExtZero =>
            /\ channel.used = ExtOne
            /\ channel.is_read = ExtOne
            /\ channel.addr_context = nv.context
            /\ channel.addr_segment = from_canonical(SegmentStack)
            /\ channel.addr_virtual = ExtSub(nv.stack_len, ExtOne)
       /\ len_diff = ExtZero => channel.used = ExtZero

\* the constraints vanish on a pair whose operation empties the stack, with a
\* stack_inv that is not 0
C13_Witness ==
  /\ yielded_packed # None
  /\ AllVanish(yielded_packed)
  /\ stack_behavior.num_pops = 2
  /\ lv.stack_len = from_canonical(2)
  /\ lv.stack_inv # ExtZero
  /\ Chan(nv, 0).used = ExtZero

\* C14: on a row pair on which the constraints of eval_packed vanish, the
\* operation whose flag is 1 having a behaviour in STACK_BEHAVIORS, nv.stack_len =
\* lv.stack_len - num_pops + (1 if pushes else 0); and along the rows accepted so
\* far the stack length is the initial one minus the pops plus the pushes.
C14_StackLenBookkeeping ==
  walk # None =>
    /\ (yielded_packed # None /\ AllVanish(yielded_packed)) =>
         LET sb == STACK_BEHAVIORS[OpOf(lv)]
         IN nv.stack_len =
              ExtAdd(ExtSub(lv.stack_len, from_canonical(sb.num_pops)),
                     from_canonical(AsUsize(sb.pushes)))
    /\ lv.stack_len =
         ExtAdd(ExtSub(from_canonical(walk.len0), from_canonical(walk.pops)),
                from_canonical(walk.pushes))

\* two row pairs were accepted, with pops and pushes among their operations
C14_Witness ==
  /\ walk # None
  /\ walk.rows = 2
  /\ walk.pops > 1
  /\ walk.pushes > 0
  /\ walk.pops # walk.pushes

\* the channel reads the stack of the row at depth i below its top
ReadsStackAt(row, channel, i) ==
  /\ channel.is_read = ExtOne
  /\ channel.addr_context = row.context
  /\ channel.addr_segment = from_canonical(SegmentStack)
  /\ channel.addr_virtual = ExtSub(row.stack_len, from_canonical(i + 1))

\* the channel writes to the stack of the row
WritesStack(row, channel) ==
  /\ channel.is_read = ExtZero
  /\ channel.addr_context = row.context
  /\ channel.addr_segment = from_canonical(SegmentStack)

\* C15 (as claimed): on a row pair with filter 1 on which every constraint of
\* eval_packed_one vanishes, each of the first num_pops channels of the current
\* row has its read flag and its address fixed to a read of the stack, the last
\* channel of an operation that pushes to a write of the stack, and under
\* disable_other_channels every channel between them has used = 0.
C15_ChannelsConstrained ==
  (yielded_packed # None /\ filter = ExtOne /\ AllVanish(yielded_packed)) =>
    LET sb == stack_behavior
        n_push == AsUsize(sb.pushes)
    IN /\ \A i \in 0 .. (sb.num_pops - 1) : ReadsStackAt(lv, Chan(lv, i), i)
       /\ sb.pushes => WritesStack(lv, Chan(lv, NUM_GP_CHANNELS - 1))
       /\ sb.disable_other_channels =>
            \A i \in sb.num_pops .. (NUM_GP_CHANNELS - n_push - 1) :
              Chan(lv, i).used = ExtZero

====
